---- MODULE Spec2Model ----
(***************************************************************************)
(* Model of cita-ed25519's Signature (src/src/signature.rs): the 96-byte   *)
(* composite value "raw signature || public key", its Sign trait           *)
(* operations (sign, recover, verify_public, verify_address), its two      *)
(* codecs (RLP and serde element sequence) and its byte conversions.       *)
(*                                                                         *)
(* Byte arrays are sequences of integers 0..255; index i of the source is  *)
(* index i+1 here.  The detached-signature primitive, KeyPair and the      *)
(* address hash are outside src/src and are modelled at their interface.   *)
(***************************************************************************)
EXTENDS Integers, Sequences, FiniteSets, TLC

VARIABLES sig, msg, tampered, last

vars == <<sig, msg, tampered, last>>

----------------------------------------------------------------------------
(* Sizes, src/src/lib.rs *)

ADDR_BYTES_LEN == 20
PUBKEY_BYTES_LEN == 32
PRIVKEY_BYTES_LEN == 64
SIGNATURE_BYTES_LEN == 96
HASH_BYTES_LEN == 32

(* The split of the 96 bytes: self.0[0..64] and self.0[64..96]. *)
SIG_HALF_LEN == 64

(* Number of generated key pairs. *)
NumKeys == 2

Byte == 0..255

Zeros(n) == [i \in 1..n |-> 0]

(* bytes with bit n flipped; bit n is bit (n % 8) of byte (n \div 8). *)
FlipBitAt(bytes, n) ==
    LET i == (n \div 8) + 1
        w == 2 ^ (n % 8)
        b == bytes[i]
    IN  [bytes EXCEPT ![i] = IF (b \div w) % 2 = 1 THEN b - w ELSE b + w]

----------------------------------------------------------------------------
(* Results.  Variants carry differently named fields. *)

OkSignature(s) == [tag |-> "Ok", signature |-> s]
OkPubKey(p) == [tag |-> "Ok", pubkey |-> p]
OkBool(b) == [tag |-> "Ok", bool |-> b]
OkBytes(b) == [tag |-> "Ok", bytes |-> b]
OkKeyPair(sk, p) == [tag |-> "Ok", privkey |-> sk, pubkey |-> p]
Err(e) == [tag |-> "Err", error |-> e]
Panic(what) == [tag |-> "Panic", panic |-> what]
NoResult == [tag |-> "None"]

----------------------------------------------------------------------------
(* External collaborators, modelled at their interface (spec sections 4.1, *)
(* 4.2 and 6): key generation, public-key derivation, the detached         *)
(* signature primitive and the address hash.                               *)

Keys == 1..NumKeys

(* The private key of the k-th generated key pair. *)
GenPrivKey(k) == [i \in 1..PRIVKEY_BYTES_LEN |-> (k * 37 + i * 11) % 256]

(* The public key the primitive derives from a private key. *)
DerivePubKey(privkey) ==
    [i \in 1..PUBKEY_BYTES_LEN |->
        (privkey[i] + 2 * privkey[i + PUBKEY_BYTES_LEN] + 7) % 256]

PrivKeys == {GenPrivKey(k) : k \in Keys}

(* Key material the primitive rejects. *)
MalformedPrivKey == Zeros(PRIVKEY_BYTES_LEN)

(* KeyPair::from_privkey: the pair of the private key and the public key   *)
(* derived from it, or InvalidPrivateKey for rejected key material.        *)
from_privkey(privkey) ==
    IF privkey \in PrivKeys
    THEN OkKeyPair(privkey, DerivePubKey(privkey))
    ELSE Err("InvalidPrivateKey")

(* sign_detached: deterministic 64-byte signature of message under the     *)
(* secret key; distinct messages give distinct signatures.                 *)
sign_detached(message, secret_key) ==
    [i \in 1..SIG_HALF_LEN |->
        IF i <= 32
        THEN (message[i] + secret_key[i]) % 256
        ELSE (3 * message[i - 32] + secret_key[i] + secret_key[i - 32]) % 256]

(* The generated key pairs: private key and derived public key. *)
KeyTable == [k \in Keys |-> [privkey |-> GenPrivKey(k), pubkey |-> DerivePubKey(GenPrivKey(k))]]

(* verify_detached: true exactly for the signature the holder of the       *)
(* matching secret key produces over the message.                          *)
verify_detached(signature, message, public_key) ==
    \E k \in Keys :
        /\ KeyTable[k].pubkey = public_key
        /\ sign_detached(message, KeyTable[k].privkey) = signature

(* The fixed hash of the address derivation. *)
crypt_hash(bytes) ==
    [i \in 1..HASH_BYTES_LEN |->
        (5 * bytes[i] + bytes[(i % Len(bytes)) + 1] + 13) % 256]

(* pubkey_to_address: a 20-byte window of the hash of the public key. *)
pubkey_to_address(pubkey) ==
    SubSeq(crypt_hash(pubkey), HASH_BYTES_LEN - ADDR_BYTES_LEN + 1, HASH_BYTES_LEN)

----------------------------------------------------------------------------
(* Signature, src/src/signature.rs *)

(* pub struct Signature(pub [u8; 96]) *)
IsSignature(s) == Len(s) = SIGNATURE_BYTES_LEN

(* Signature::sig: &self.0[0..64] *)
sig_half(s) == SubSeq(s, 1, SIG_HALF_LEN)

(* Signature::pk: &self.0[64..96] *)
pk(s) == SubSeq(s, SIG_HALF_LEN + 1, SIGNATURE_BYTES_LEN)

(* PartialEq: self.0[..] == rhs.0[..] *)
eq(lhs, rhs) == lhs = rhs

(* Default: Signature([0u8; 96]) *)
default == Zeros(SIGNATURE_BYTES_LEN)

(* Faulty sign: the public key placed before the raw signature. *)
sign_key_first(privkey, message) ==
    LET keypair == from_privkey(privkey)
    IN  IF keypair.tag = "Err"
        THEN keypair
        ELSE OkSignature(keypair.pubkey \o sign_detached(message, privkey))

(* Signature::sign *)
sign(privkey, message) ==
    LET keypair == from_privkey(privkey)
    IN  IF keypair.tag = "Err"
        THEN keypair
        ELSE LET pubkey == keypair.pubkey
                 sg == sign_detached(message, privkey)
                 ret == [i \in 1..SIGNATURE_BYTES_LEN |->
                            IF i <= SIG_HALF_LEN THEN sg[i] ELSE pubkey[i - SIG_HALF_LEN]]
             IN  OkSignature(ret)

(* Faulty recover: the result of verify_detached is ignored. *)
recover_unchecked(self, message) == OkPubKey(pk(self))

(* Signature::recover *)
recover(self, message) ==
    LET is_valid == verify_detached(sig_half(self), message, pk(self))
    IN  IF ~is_valid THEN Err("InvalidSignature") ELSE OkPubKey(pk(self))

(* Faulty verify_public: the embedded-key comparison is inverted. *)
verify_public_inverted(self, pubkey, message) ==
    IF pk(self) = pubkey
    THEN Err("InvalidPubKey")
    ELSE LET is_valid == verify_detached(sig_half(self), message, pubkey)
         IN  IF ~is_valid THEN Err("InvalidSignature") ELSE OkBool(TRUE)

(* Faulty verify_public: detached verification runs before the            *)
(* embedded-key comparison.                                                *)
verify_public_verify_first(self, pubkey, message) ==
    IF ~verify_detached(sig_half(self), message, pubkey)
    THEN Err("InvalidSignature")
    ELSE IF pk(self) # pubkey THEN Err("InvalidPubKey") ELSE OkBool(TRUE)

(* Signature::verify_public *)
verify_public(self, pubkey, message) ==
    IF pk(self) # pubkey
    THEN Err("InvalidPubKey")
    ELSE LET is_valid == verify_detached(sig_half(self), message, pubkey)
         IN  IF ~is_valid THEN Err("InvalidSignature") ELSE OkBool(TRUE)

(* Faulty verify_address: the address comparison is dropped. *)
verify_address_any(self, address, message) ==
    LET pubkey == recover(self, message)
    IN  IF pubkey.tag = "Err" THEN pubkey ELSE OkBool(TRUE)

(* Signature::verify_address *)
verify_address(self, address, message) ==
    LET pubkey == recover(self, message)
    IN  IF pubkey.tag = "Err"
        THEN pubkey
        ELSE OkBool(address = pubkey_to_address(pubkey.pubkey))

----------------------------------------------------------------------------
(* The RLP byte-string codec the Encodable / Decodable impls call into.    *)

RECURSIVE to_big_endian(_)
to_big_endian(n) ==
    IF n < 256 THEN <<n>> ELSE to_big_endian(n \div 256) \o <<n % 256>>

RECURSIVE from_big_endian(_)
from_big_endian(bytes) ==
    IF Len(bytes) = 0
    THEN 0
    ELSE 256 * from_big_endian(SubSeq(bytes, 1, Len(bytes) - 1)) + bytes[Len(bytes)]

(* BasicEncoder::encode_value *)
encode_value(value) ==
    LET len == Len(value)
    IN  IF len = 0 THEN <<128>>
        ELSE IF len = 1 /\ value[1] < 128 THEN <<value[1]>>
        ELSE IF len <= 55 THEN <<128 + len>> \o value
        ELSE LET size == to_big_endian(len)
             IN  <<183 + Len(size)>> \o size \o value

(* BasicDecoder::decode_value, up to the call of the closure: the payload  *)
(* handed to the closure, or the decoder's error.                          *)
decode_value(bytes) ==
    IF Len(bytes) = 0 THEN Err("RlpIsTooShort")
    ELSE LET l == bytes[1]
         IN  IF l <= 127 THEN OkBytes(<<l>>)
             ELSE IF l <= 183
             THEN LET last_index_of == 1 + l - 128
                  IN  IF Len(bytes) < last_index_of
                      THEN Err("RlpInconsistentLengthAndData")
                      ELSE LET d == SubSeq(bytes, 2, last_index_of)
                           IN  IF l = 129 /\ d[1] < 128
                               THEN Err("RlpInvalidIndirection")
                               ELSE OkBytes(d)
             ELSE IF l <= 191
             THEN LET len_of_len == l - 183
                      begin_of_value == 1 + len_of_len
                  IN  IF Len(bytes) < begin_of_value
                      THEN Err("RlpInconsistentLengthAndData")
                      ELSE IF bytes[2] = 0
                      THEN Err("RlpInvalidIndirection")
                      ELSE LET len == from_big_endian(SubSeq(bytes, 2, begin_of_value))
                               last_index_of_value == begin_of_value + len
                           IN  IF len < 56
                               THEN Err("RlpInvalidIndirection")
                               ELSE IF Len(bytes) < last_index_of_value
                               THEN Err("RlpInconsistentLengthAndData")
                               ELSE OkBytes(SubSeq(bytes, begin_of_value + 1,
                                                   last_index_of_value))
             ELSE Err("RlpExpectedToBeData")

(* [u8]::copy_from_slice into a destination of dst_len bytes: panics       *)
(* unless the source has the same length.                                  *)
copy_from_slice(dst_len, src) ==
    IF Len(src) # dst_len
    THEN Panic("source slice length does not match destination slice length")
    ELSE OkBytes(src)

(* Faulty rlp_append: only the signature half is encoded. *)
rlp_append_sig_only(self) == encode_value(SubSeq(self, 1, SIG_HALF_LEN))

(* Encodable::rlp_append *)
rlp_append(self) == encode_value(SubSeq(self, 1, SIGNATURE_BYTES_LEN))

(* Decodable::decode *)
decode(rlp) ==
    LET value == decode_value(rlp)
    IN  IF value.tag = "Err"
        THEN value
        ELSE LET copied == copy_from_slice(SIGNATURE_BYTES_LEN, value.bytes)
             IN  IF copied.tag = "Panic" THEN copied ELSE OkSignature(copied.bytes)

----------------------------------------------------------------------------
(* The serde element-sequence codec.                                       *)

(* Serialize::serialize: serialize_seq(Some(96)), then one element per    *)
(* index i in 0..96, in order.                                             *)
serialize(self) == OkBytes([i \in 1..SIGNATURE_BYTES_LEN |-> self[i]])

(* SeqAccess::next_element at position i of the sequence: Some(val) or     *)
(* None when the sequence is exhausted.                                    *)
next_element(elements, i) ==
    IF i <= Len(elements) THEN <<elements[i]>> ELSE <<>>

(* A visit_seq that also rejects a sequence with elements after the 96th. *)
visit_seq_exact(elements) ==
    IF Len(elements) # SIGNATURE_BYTES_LEN
    THEN Err("invalid_length")
    ELSE OkSignature(elements)

(* SignatureVisitor::visit_seq: for i in 0..96, signature.0[i] is the      *)
(* next element; a None is invalid_length.  The loop ends after the 96th   *)
(* element and the sequence is not read further.                           *)
visit_seq(elements) ==
    IF \E i \in 1..SIGNATURE_BYTES_LEN : next_element(elements, i) = <<>>
    THEN Err("invalid_length")
    ELSE OkSignature([i \in 1..SIGNATURE_BYTES_LEN |-> next_element(elements, i)[1]])

(* Deserialize::deserialize: deserializer.deserialize_seq(visitor) *)
deserialize(elements) == visit_seq(elements)

----------------------------------------------------------------------------
(* Conversions *)

(* From<[u8; 96]> for Signature *)
from_array(bytes) == bytes

(* Faulty From<&[u8]>: no length assertion; the slice is cut or padded     *)
(* with zeros to 96 bytes.                                                 *)
from_slice_unchecked(slice) ==
    OkSignature([i \in 1..SIGNATURE_BYTES_LEN |-> IF i <= Len(slice) THEN slice[i] ELSE 0])

(* From<&[u8]> for Signature *)
from_slice(slice) ==
    IF Len(slice) # SIGNATURE_BYTES_LEN
    THEN Panic("assertion failed: slice.len() == SIGNATURE_BYTES_LEN")
    ELSE LET copied == copy_from_slice(SIGNATURE_BYTES_LEN, slice)
         IN  IF copied.tag = "Panic" THEN copied ELSE OkSignature(copied.bytes)

(* Into<&[u8]> for &Signature: &self.0[..] *)
into_slice(self) == SubSeq(self, 1, Len(self))

(* Clone *)
clone(self) == self

(* LowerHex: two lowercase hex digits per byte, as digit values 0..15. *)
lower_hex(self) ==
    [j \in 1..(2 * Len(self)) |->
        IF j % 2 = 1 THEN self[(j + 1) \div 2] \div 16 ELSE self[j \div 2] % 16]

----------------------------------------------------------------------------
(* Inputs *)

(* tests::MESSAGE *)
MESSAGE ==
    <<1, 2, 3, 4, 25, 171, 254, 57, 111, 40, 121, 0, 8, 223, 154, 239,
      251, 119, 66, 174, 173, 252, 207, 18, 36, 69, 41, 137, 41, 69, 63, 248>>

(* The message of the concrete scenario: 32 zero bytes except the last. *)
ScenarioMessage == [i \in 1..32 |-> IF i = 32 THEN 1 ELSE 0]

Messages == {MESSAGE, ScenarioMessage}

PrivKeyInputs == PrivKeys \cup {MalformedPrivKey}

PubKeyOf(k) == KeyTable[k].pubkey

(* 96-byte blobs received from outside: the signature half one key made    *)
(* over MESSAGE, followed by the public key of another key pair.           *)
RawInputs ==
    {sig_half(sign(GenPrivKey(k), MESSAGE).signature) \o PubKeyOf((k % NumKeys) + 1) :
        k \in Keys}

PubKeyInputs(s) == {PubKeyOf(k) : k \in Keys} \cup {pk(s)}

AddressInputs ==
    {pubkey_to_address(PubKeyOf(k)) : k \in Keys} \cup {Zeros(ADDR_BYTES_LEN)}

Shorter(s) == SubSeq(s, 1, Len(s) - 1)
Longer(s) == s \o <<7>>

RlpInputs(s) ==
    {rlp_append(s), encode_value(Shorter(s)), encode_value(Longer(s)),
     encode_value(<<>>), encode_value(<<5>>), <<>>, <<192>>,
     SubSeq(rlp_append(s), 1, 50)}

SeqInputs(s) == {serialize(s).bytes, Shorter(s), Longer(s), <<>>}

SliceInputs(s) == {into_slice(s), Shorter(s), Longer(s)}

----------------------------------------------------------------------------
(* State: sig is the Signature value of the run (<<>> before one is        *)
(* constructed), msg the caller's Message, tampered whether a single-bit   *)
(* change has been applied, last the last call and its result.             *)

Call(op, pubkey, address, input, res) ==
    [op |-> op, pubkey |-> pubkey, address |-> address, input |-> input, res |-> res]

(* A panic ends the run. *)
Running == last.res.tag # "Panic"

Constructed == sig # <<>>

Init ==
    /\ sig = <<>>
    /\ msg \in Messages
    /\ tampered = FALSE
    /\ last = Call("init", <<>>, <<>>, <<>>, NoResult)

(* let sig = Signature::sign(privkey, &msg) *)
Sign(privkey) ==
    /\ Running /\ ~Constructed
    /\ LET r == sign(privkey, msg)
       IN  /\ sig' = IF r.tag = "Ok" THEN r.signature ELSE sig
           /\ last' = Call("sign", <<>>, <<>>, privkey, r)
    /\ UNCHANGED <<msg, tampered>>

(* let sig = Signature::from(bytes) for a received [u8; 96] *)
FromArray(bytes) ==
    /\ Running /\ ~Constructed
    /\ sig' = from_array(bytes)
    /\ last' = Call("from_array", <<>>, <<>>, bytes, OkSignature(from_array(bytes)))
    /\ UNCHANGED <<msg, tampered>>

(* let sig = Signature::default() *)
Default ==
    /\ Running /\ ~Constructed
    /\ sig' = default
    /\ last' = Call("default", <<>>, <<>>, <<>>, OkSignature(default))
    /\ UNCHANGED <<msg, tampered>>

(* DerefMut::deref_mut, then a write through the &mut [u8; 96] that flips  *)
(* bit n of the array.                                                     *)
deref_mut_flip(self, n) == FlipBitAt(self, n)

DerefMutFlip(n) ==
    /\ Running /\ Constructed /\ ~tampered
    /\ sig' = deref_mut_flip(sig, n)
    /\ tampered' = TRUE
    /\ last' = Call("deref_mut", <<>>, <<>>, <<n>>, NoResult)
    /\ UNCHANGED msg

(* The caller changes bit n of the message. *)
TamperMessage(n) ==
    /\ Running /\ Constructed /\ ~tampered
    /\ msg' = FlipBitAt(msg, n)
    /\ tampered' = TRUE
    /\ last' = Call("tamper_message", <<>>, <<>>, <<n>>, NoResult)
    /\ UNCHANGED sig

(* The caller takes another message. *)
NewMessage(m) ==
    /\ Running /\ m # msg
    /\ msg' = m
    /\ last' = Call("new_message", <<>>, <<>>, m, NoResult)
    /\ UNCHANGED <<sig, tampered>>

(* sig.recover(&msg) *)
Recover ==
    /\ Running /\ Constructed
    /\ last' = Call("recover", <<>>, <<>>, <<>>, recover(sig, msg))
    /\ UNCHANGED <<sig, msg, tampered>>

(* sig.verify_public(&pubkey, &msg) *)
VerifyPublic(pubkey) ==
    /\ Running /\ Constructed
    /\ last' = Call("verify_public", pubkey, <<>>, <<>>, verify_public(sig, pubkey, msg))
    /\ UNCHANGED <<sig, msg, tampered>>

(* sig.verify_address(&address, &msg) *)
VerifyAddress(address) ==
    /\ Running /\ Constructed
    /\ last' = Call("verify_address", <<>>, address, <<>>,
                    verify_address(sig, address, msg))
    /\ UNCHANGED <<sig, msg, tampered>>

(* sig.rlp_append(&mut stream) *)
RlpAppend ==
    /\ Running /\ Constructed
    /\ last' = Call("rlp_append", <<>>, <<>>, <<>>, OkBytes(rlp_append(sig)))
    /\ UNCHANGED <<sig, msg, tampered>>

(* Signature::decode(&Rlp::new(rlp)) *)
RlpDecode(rlp) ==
    /\ Running /\ Constructed
    /\ last' = Call("decode", <<>>, <<>>, rlp, decode(rlp))
    /\ UNCHANGED <<sig, msg, tampered>>

(* sig.serialize(serializer) *)
Serialize ==
    /\ Running /\ Constructed
    /\ last' = Call("serialize", <<>>, <<>>, <<>>, serialize(sig))
    /\ UNCHANGED <<sig, msg, tampered>>

(* Signature::deserialize(deserializer) over a sequence of elements *)
Deserialize(elements) ==
    /\ Running /\ Constructed
    /\ last' = Call("deserialize", <<>>, <<>>, elements, deserialize(elements))
    /\ UNCHANGED <<sig, msg, tampered>>

(* Signature::from(slice) *)
FromSlice(slice) ==
    /\ Running /\ Constructed
    /\ last' = Call("from_slice", <<>>, <<>>, slice, from_slice(slice))
    /\ UNCHANGED <<sig, msg, tampered>>

(* let slice: &[u8] = (&sig).into() *)
IntoSlice ==
    /\ Running /\ Constructed
    /\ last' = Call("into_slice", <<>>, <<>>, <<>>, OkBytes(into_slice(sig)))
    /\ UNCHANGED <<sig, msg, tampered>>

(* Faulty clone: the bytes are moved out, leaving zeros behind. *)
CloneTake ==
    /\ Running /\ Constructed
    /\ last' = Call("clone", <<>>, <<>>, <<>>, OkSignature(sig))
    /\ sig' = default
    /\ UNCHANGED <<msg, tampered>>

(* sig.clone() *)
Clone ==
    /\ Running /\ Constructed
    /\ last' = Call("clone", <<>>, <<>>, <<>>, OkSignature(clone(sig)))
    /\ UNCHANGED <<sig, msg, tampered>>

(* format!("{:x}", sig) *)
LowerHex ==
    /\ Running /\ Constructed
    /\ last' = Call("lower_hex", <<>>, <<>>, <<>>, OkBytes(lower_hex(sig)))
    /\ UNCHANGED <<sig, msg, tampered>>

(* Bit positions of the sampled single-bit changes: the first and last    *)
(* bit of the signature half and of the embedded key.                      *)
FlipSample == {0, 8 * SIG_HALF_LEN - 1, 8 * SIG_HALF_LEN, 8 * SIGNATURE_BYTES_LEN - 1}

MessageFlipSample == {0, 8 * 32 - 1}

(* Further received blobs: every byte 255, and the bytes 1..96. *)
BlobInputs ==
    {[i \in 1..SIGNATURE_BYTES_LEN |-> 255], [i \in 1..SIGNATURE_BYTES_LEN |-> i]}

Construct(raws) ==
    \/ \E privkey \in PrivKeyInputs : Sign(privkey)
    \/ \E bytes \in raws : FromArray(bytes)
    \/ Default

Mutate(bits, msgbits) ==
    \/ Constructed /\ ~tampered /\ \E n \in bits : DerefMutFlip(n)
    \/ Constructed /\ ~tampered /\ \E n \in msgbits : TamperMessage(n)

Verify ==
    \/ Recover
    \/ Constructed /\ \E pubkey \in PubKeyInputs(sig) : VerifyPublic(pubkey)
    \/ \E address \in AddressInputs : VerifyAddress(address)

Codec ==
    \/ RlpAppend
    \/ Constructed /\ \E rlp \in RlpInputs(sig) : RlpDecode(rlp)
    \/ Serialize
    \/ Constructed /\ \E elements \in SeqInputs(sig) : Deserialize(elements)
    \/ Constructed /\ \E slice \in SliceInputs(sig) : FromSlice(slice)
    \/ IntoSlice
    \/ Clone
    \/ LowerHex

(* Signing, every single-bit change, verification. *)
Next ==
    \/ Construct(RawInputs)
    \/ Mutate(0..(8 * SIGNATURE_BYTES_LEN - 1), 0..(8 * 32 - 1))
    \/ Verify

Spec == Init /\ [][Next]_vars

(* Every operation of the type, with sampled single-bit changes. *)
NextOps ==
    \/ Construct(RawInputs \cup BlobInputs)
    \/ Mutate(FlipSample, MessageFlipSample)
    \/ \E m \in Messages : NewMessage(m)
    \/ Verify
    \/ Codec

SpecOps == Init /\ [][NextOps]_vars

----------------------------------------------------------------------------
(* Properties *)

(* The signature key pair k produces over message m. *)
Signed == [k \in Keys, m \in Messages |-> sign(GenPrivKey(k), m).signature]

(* a and b have equal length and differ in exactly one bit, and that bit   *)
(* lies in bytes lo..hi.                                                   *)
OneBitApart(a, b, lo, hi) ==
    /\ Len(a) = Len(b)
    /\ LET D == {i \in 1..Len(a) : a[i] # b[i]}
       IN  /\ Cardinality(D) = 1
           /\ \E i \in D :
                /\ lo <= i /\ i <= hi
                /\ \E j \in 0..7 : a = FlipBitAt(b, 8 * (i - 1) + j)

(* C1: sign-then-verify.  sign with the private key of a key pair succeeds *)
(* with a Signature, and verify_public of that Signature with the pair's   *)
(* public key and the signed message returns Ok(true).                     *)
C1_SignThenVerify ==
    /\ (last.op = "sign" /\ last.input \in PrivKeys) =>
            /\ last.res.tag = "Ok"
            /\ IsSignature(last.res.signature)
            /\ sig = last.res.signature
    /\ \A k \in Keys, m \in Messages :
            (/\ last.op = "verify_public"
             /\ sig = Signed[k, m]
             /\ msg = m
             /\ last.pubkey = PubKeyOf(k)) => last.res = OkBool(TRUE)

C1_Witness ==
    /\ last.op = "verify_public"
    /\ last.res = OkBool(TRUE)
    /\ \E k \in Keys : sig = Signed[k, msg] /\ last.pubkey = PubKeyOf(k)

(* C2: sign-then-recover.  The signature sign returns holds the raw        *)
(* 64-byte signature in bytes [0..64) and the key pair's public key in     *)
(* bytes [64..96), and recover with the signed message returns             *)
(* Ok(public key), the embedded key half.                                  *)
C2_SignThenRecover ==
    /\ \A k \in Keys :
            (last.op = "sign" /\ last.input = GenPrivKey(k)) =>
                /\ last.res.tag = "Ok"
                /\ Len(last.res.signature) = 96
                /\ SubSeq(last.res.signature, 1, 64) = sign_detached(msg, GenPrivKey(k))
                /\ SubSeq(last.res.signature, 65, 96) = PubKeyOf(k)
    /\ \A k \in Keys, m \in Messages :
            (last.op = "recover" /\ sig = Signed[k, m] /\ msg = m) =>
                /\ last.res = OkPubKey(PubKeyOf(k))
                /\ last.res.pubkey = SubSeq(sig, 65, 96)

C2_Witness ==
    /\ last.op = "recover"
    /\ \E k \in Keys : sig = Signed[k, msg] /\ last.res = OkPubKey(PubKeyOf(k))

(* C3: address binding.  For a signature made by a key pair over the       *)
(* message, verify_address(A) is Ok(true) when A is the address of the     *)
(* pair's public key and Ok(false) for every other A; when the signature   *)
(* half does not verify under the embedded key (recover fails),            *)
(* verify_address returns that error, InvalidSignature, not a boolean.     *)
C3_AddressBinding ==
    last.op = "verify_address" =>
        /\ \A k \in Keys, m \in Messages :
                (sig = Signed[k, m] /\ msg = m) =>
                    last.res = OkBool(last.address = pubkey_to_address(PubKeyOf(k)))
        /\ ~verify_detached(SubSeq(sig, 1, 64), msg, SubSeq(sig, 65, 96)) =>
                last.res = Err("InvalidSignature")

C3_Witness ==
    /\ last.op = "verify_address"
    /\ last.res = OkBool(FALSE)
    /\ \E k \in Keys : sig = Signed[k, msg]

(* C4: verify_public has three outcomes.  Err(InvalidPubKey) whenever the  *)
(* embedded key bytes [64..96) differ from the given key, whether or not   *)
(* the signature half verifies; Err(InvalidSignature) when they are equal  *)
(* and detached verification fails; Ok(true) otherwise; never Ok(false).   *)
C4_VerifyPublicOutcomes ==
    last.op = "verify_public" =>
        LET same == SubSeq(sig, 65, 96) = last.pubkey
            valid == verify_detached(SubSeq(sig, 1, 64), msg, last.pubkey)
        IN  /\ ~same => last.res = Err("InvalidPubKey")
            /\ (same /\ ~valid) => last.res = Err("InvalidSignature")
            /\ (same /\ valid) => last.res = OkBool(TRUE)
            /\ last.res # OkBool(FALSE)

(* The key differs from the embedded one although the signature half       *)
(* verifies under the given key.                                           *)
C4_Witness ==
    /\ last.op = "verify_public"
    /\ SubSeq(sig, 65, 96) # last.pubkey
    /\ verify_detached(SubSeq(sig, 1, 64), msg, last.pubkey)
    /\ last.res = Err("InvalidPubKey")

(* C5: tamper rejection.  After a single-bit change of the signature half  *)
(* of a signature made over the message, or of the message, recover and    *)
(* verify_public with the signer's public key return                       *)
(* Err(InvalidSignature).                                                  *)
TamperedSignature(k, m) ==
    \/ msg = m /\ OneBitApart(sig, Signed[k, m], 1, 64)
    \/ sig = Signed[k, m] /\ OneBitApart(msg, m, 1, 32)

C5_TamperRejection ==
    (last.op = "recover" \/ last.op = "verify_public") =>
        \A k \in Keys, m \in Messages :
            (/\ TamperedSignature(k, m)
             /\ last.op = "verify_public" => last.pubkey = PubKeyOf(k))
                => last.res = Err("InvalidSignature")

C5_Witness ==
    /\ last.op = "recover"
    /\ last.res = Err("InvalidSignature")
    /\ \E k \in Keys, m \in Messages : msg = m /\ OneBitApart(sig, Signed[k, m], 1, 64)

(* C6: codec round trip.  Decoding the encoding of a Signature yields a    *)
(* Signature equal to it on all 96 bytes, for rlp_append / decode and for  *)
(* serialize / deserialize.                                                *)
C6_CodecRoundTrip ==
    /\ (last.op = "decode" /\ last.input = rlp_append(sig)) =>
            /\ last.res.tag = "Ok"
            /\ eq(last.res.signature, sig)
            /\ \A i \in 1..96 : last.res.signature[i] = sig[i]
    /\ (last.op = "deserialize" /\ last.input = serialize(sig).bytes) =>
            /\ last.res.tag = "Ok"
            /\ eq(last.res.signature, sig)
            /\ \A i \in 1..96 : last.res.signature[i] = sig[i]
    /\ last.op = "rlp_append" => last.res.bytes = <<184, 96>> \o sig
    /\ last.op = "serialize" => last.res.bytes = sig

C6_Witness ==
    /\ last.op = "decode"
    /\ last.input = <<184, 96>> \o sig
    /\ last.res = OkSignature(sig)
    /\ sig \notin {default}

C6_WitnessSeq ==
    /\ last.op = "deserialize"
    /\ last.input = sig
    /\ last.res = OkSignature(sig)

(* C7: RLP decoding of a value whose byte length is not 96 returns a       *)
(* decode error: no Signature, no panic.                                   *)
C7_RlpWrongLengthIsError ==
    (/\ last.op = "decode"
     /\ ~(decode_value(last.input).tag = "Ok"
            /\ Len(decode_value(last.input).bytes) = 96))
        => last.res.tag = "Err"

C8_WitnessShort ==
    /\ last.op = "deserialize"
    /\ Len(last.input) = 95
    /\ last.res = Err("invalid_length")

C9_WitnessPanic ==
    /\ last.op = "from_slice"
    /\ Len(last.input) = 95
    /\ last.res.tag = "Panic"

====
